---- MODULE Spec2Model ----
(***************************************************************************)
(* A model of speed-bump's instrumentation-and-delay engine:               *)
(*   src/src/speed_bump/_setprofile.c  the interception controller, its    *)
(*                                     match cache and its gates           *)
(*   src/src/speed_bump/_core.c        the spin-delay primitive            *)
(*                                                                         *)
(* Six specifications share the module.  Spec is the controller:           *)
(* install, uninstall, is_installed and the profile callback, each one     *)
(* atomic step (the handlers run with the interpreter lock held).  In Spec *)
(* the busy-wait at the end of the callback is recorded as "delayed": it   *)
(* changes no engine state.  ConcSpec is the controller with the one place *)
(* where the lock can change hands inside the callback, the call of the    *)
(* Python matcher, made a step boundary.  SpinSpec is the busy-wait loop   *)
(* itself, clock read by clock read, over a scaled unsigned width.         *)
(* CoreSpec is the _core module from its import on: calibration, the       *)
(* getters and the spin delay.  TsanSpec is tests/tsan_test.c: the workers *)
(* spinning side by side.  LiveSpec is one spin delay under a clock that   *)
(* keeps advancing, with install and uninstall alongside, under weak       *)
(* fairness.                                                               *)
(*                                                                         *)
(* Of the interpreter's failures inside the callback, the failing cache    *)
(* store (_PyCode_SetExtra) is modelled, the allocation failures of the    *)
(* frequency gate's integer objects are not; the failure exits of install  *)
(* are modelled.                                                           *)
(***************************************************************************)
EXTENDS Integers, FiniteSets, Sequences, TLC

\* ------------------------------------------------------------------ bounds
\* Width in bits of the scaled uint64_t (clock values, delay_ns).
ClockBits == 3
\* Width in bits of the scaled C int (g_frequency).
IntBits == 3
\* Largest CLOCK_MONOTONIC reading the spin model explores.
MaxMono == 5
\* Largest number of gated calls counted per site in one installation.
MaxCalls == 4

\* tests/tsan_test.c, scaled: N_ITERATIONS (100) and DELAY_NS (10000).
N_ITERATIONS == 2
DELAY_NS == 2

\* _core.c calibrate_clock, scaled: ITERS (100000), the clock reads measured.
ITERS == 2

U64Mod == 2 ^ ClockBits
U64Max == U64Mod - 1
IntMod == 2 ^ IntBits
IntHalf == 2 ^ (IntBits - 1)

Threads == {"T1", "T2"}
Sites == {"f", "g"}

\* ------------------------------------------------------- program constants
CACHE_UNKNOWN == 0
CACHE_NO_MATCH == 1
CACHE_MATCH == 2

VARIABLES
    g_extra_index,       \* -1, or the co_extra slot index
    g_patterns_module,   \* FALSE = NULL
    g_matches_any_func,  \* FALSE = NULL
    g_target_patterns,   \* [null, list]: NULL or the configured target list
    g_delay_ns,
    g_frequency,
    g_start_ns,
    g_end_ns,
    g_installed,
    g_call_counters,     \* [null, cnt]: NULL or the dict, 0 = key absent
    co_extra,            \* per code object: the cache slot at g_extra_index
    c_profilefunc,       \* per thread: profile_callback attached
    last,                \* the last operation and what it did
    qual,                \* history: gated calls per site, this installation
    decided,             \* history: decision of the site's first resolved event
    fired,               \* history: delays started per site, this installation
    inflight,            \* per thread: the call event waiting in the matcher
    mono,                \* CLOCK_MONOTONIC
    spin,                \* the running spin_delay_ns call
    g_clock_overhead_ns, \* _core.c: the calibrated cost of one clock read
    g_calibrated,        \* _core.c: calibration has run
    core_loaded,         \* _core.c: the module's import has completed
    got,                 \* the last _core getter called and what it returned
    worker               \* tsan_test.c: per thread, the worker's locals

engine == <<g_extra_index, g_patterns_module, g_matches_any_func,
            g_target_patterns, g_delay_ns, g_frequency, g_start_ns, g_end_ns,
            g_installed, g_call_counters, co_extra, c_profilefunc>>
hist == <<last, qual, decided, fired>>
clock == <<mono, spin>>
core == <<g_clock_overhead_ns, g_calibrated, core_loaded, got>>
\* What the controller's handlers never touch: _core.c and the thread test.
others == <<clock, core, worker>>
vars == <<engine, hist, inflight, others>>

\* ------------------------------------------------------------- the inputs
Field(k, v) == [kind |-> k, val |-> v]
Missing == Field("missing", 0)
NotInt == Field("str", 0)
IntF(v) == Field("int", v)

TField(k, s) == [kind |-> k, list |-> s]
TargetLists == {{"f"}, {"f", "g"}}

Config(targets, frequency, start_ns, end_ns) ==
    [dict |-> TRUE, targets |-> TField("list", targets), delay_ns |-> IntF(2),
     frequency |-> frequency, start_ns |-> start_ns, end_ns |-> end_ns]

\* Every frequency on an open window, and every window shape on one target.
GoodConfigs ==
    {Config(ts, fr, Missing, Missing) :
        ts \in TargetLists, fr \in {Missing, IntF(2), IntF(3), IntF(IntHalf + 1)}}
    \cup
    {Config({"f"}, fr, w[1], w[2]) :
        fr \in {Missing, IntF(2)},
        w \in {<<IntF(2), Missing>>, <<Missing, IntF(3)>>,
               <<Missing, IntF(0 - 1)>>}}

BaseConfig ==
    [dict |-> TRUE, targets |-> TField("list", {"f"}), delay_ns |-> IntF(2),
     frequency |-> IntF(2), start_ns |-> Missing, end_ns |-> Missing]

BadConfigs ==
    { [BaseConfig EXCEPT !.dict = FALSE],
      [BaseConfig EXCEPT !.targets = TField("missing", {})],
      [BaseConfig EXCEPT !.targets = TField("str", {})],
      [BaseConfig EXCEPT !.delay_ns = Missing],
      [BaseConfig EXCEPT !.delay_ns = NotInt],
      [BaseConfig EXCEPT !.delay_ns = IntF(0 - 1)],
      [BaseConfig EXCEPT !.frequency = IntF(0)],
      [BaseConfig EXCEPT !.frequency = NotInt] }

Configs == GoodConfigs \cup BadConfigs

\* Where an environment failure strikes inside install.
InstallFaults == {"none", "import", "getattr", "dict", "index"}

NowVals == {1, 3}
LocateOutcomes == {"ok", "fail"}
MatcherOutcomes == {"ok", "raise"}

\* The kinds of profiling event other than the call entry.
OtherKinds ==
    {"PyTrace_RETURN", "PyTrace_C_CALL", "PyTrace_C_EXCEPTION", "PyTrace_C_RETURN"}

\* The profiling events the host raises: call entries, with what the
\* collaborators and the wall clock answer, and events of another kind.
Events ==
    [what : {"PyTrace_CALL"}, site : Sites, loc : LocateOutcomes,
     mout : MatcherOutcomes, now : NowVals]
    \cup
    [what : OtherKinds, site : Sites, loc : {"ok"}, mout : {"ok"}, now : {1}]

NullTargets == [null |-> TRUE, list |-> {}]
NullCounters == [null |-> TRUE, cnt |-> [s \in Sites |-> 0]]
EmptyDict == [null |-> FALSE, cnt |-> [s \in Sites |-> 0]]

NoOp ==
    [op |-> "none", site |-> "f", was |-> FALSE, result |-> "none",
     cfgok |-> FALSE, resolved |-> FALSE,
     fresh |-> FALSE, fail |-> "none", matcher |-> FALSE, match |-> FALSE,
     gated |-> FALSE, delayed |-> FALSE, err |-> FALSE, now |-> 0,
     sameconf |-> TRUE, freq |-> Missing, stored |-> FALSE, what |-> "none"]

\* A thread that is not inside the callback.
Idle ==
    [pc |-> "idle", site |-> "f", mout |-> "ok",
     m |-> [ret |-> 0, invoked |-> FALSE, err |-> FALSE],
     conf |-> <<NullTargets, 0, 1, 0, 0>>]

NoCall == [op |-> "none", val |-> 0]

\* A worker of the thread test before pthread_create has started it.
Created == [pc |-> "created", i |-> 0, t0 |-> 0, t1 |-> 0, total_delay |-> 0,
            end_ns |-> 0]

SpinIdle == [state |-> "idle", delay_ns |-> 0, start |-> 0, end_ns |-> 0, now |-> 0]

Init ==
    /\ g_extra_index = 0 - 1
    /\ g_patterns_module = FALSE
    /\ g_matches_any_func = FALSE
    /\ g_target_patterns = NullTargets
    /\ g_delay_ns = 0
    /\ g_frequency = 1
    /\ g_start_ns = 0
    /\ g_end_ns = 0
    /\ g_installed = FALSE
    /\ g_call_counters = NullCounters
    /\ co_extra = [s \in Sites |-> CACHE_UNKNOWN]
    /\ c_profilefunc = [t \in Threads |-> FALSE]
    /\ last = NoOp
    /\ qual = [s \in Sites |-> 0]
    /\ decided = [s \in Sites |-> "none"]
    /\ fired = [s \in Sites |-> 0]
    /\ inflight = [t \in Threads |-> Idle]
    /\ mono = 0
    /\ spin = SpinIdle
    /\ g_clock_overhead_ns = 0
    /\ g_calibrated = FALSE
    /\ core_loaded = FALSE
    /\ got = NoCall
    /\ worker = [t \in Threads |-> Created]

\* ----------------------------------------------------- integer conversions
\* PyLong_AsUnsignedLongLong: a value outside the unsigned range raises
\* OverflowError and yields (unsigned long long)-1.
PyLong_AsUnsignedLongLong(v) ==
    IF v < 0 \/ v > U64Max
    THEN [val |-> U64Max, err |-> TRUE]
    ELSE [val |-> v, err |-> FALSE]

\* (int)PyLong_AsLong(v): truncation to the width of int, two's complement.
CastInt(v) == ((v + IntHalf) % IntMod) - IntHalf

\* g_frequency = 1; if present and an integer: the cast value, raised to 1.
ConfigFrequency(f) ==
    IF f.kind = "int"
    THEN (IF CastInt(f.val) < 1 THEN 1 ELSE CastInt(f.val))
    ELSE 1

\* g_start_ns / g_end_ns = 0; if present and an integer: the value.
ConfigTime(f) == IF f.kind = "int" THEN f.val ELSE 0

\* ----------------------------------------------------------------- install
\* The exit install takes, in the order of the code's returns.
ExitRank(e) ==
    CASE e = "TypeError" -> 1
      [] e = "RuntimeError" -> 2
      [] e = "ValueError" -> 3
      [] e = "OverflowError" -> 5
      [] e = "ImportError" -> 6
      [] e = "AttributeError" -> 7
      [] e = "MemoryError" -> 8
      [] e = "IndexError" -> 9
      [] OTHER -> 10

\* Mutant: the already-installed check is missing.
InstallExitNoGuard(cfg, fault) ==
    IF ~cfg.dict THEN "TypeError"
    ELSE IF cfg.targets.kind # "list" THEN "ValueError"
    ELSE IF cfg.delay_ns.kind # "int" THEN "ValueError"
    ELSE IF PyLong_AsUnsignedLongLong(cfg.delay_ns.val).err THEN "OverflowError"
    ELSE IF ~g_patterns_module /\ fault = "import" THEN "ImportError"
    ELSE IF ~g_matches_any_func /\ fault = "getattr" THEN "AttributeError"
    ELSE IF ConfigFrequency(cfg.frequency) > 1 /\ fault = "dict" THEN "MemoryError"
    ELSE IF g_extra_index < 0 /\ fault = "index" THEN "IndexError"
    ELSE "ok"

\* Mutant: targets is tested for presence only, not for being a list.
InstallExitNoListCheck(cfg, fault) ==
    IF ~cfg.dict THEN "TypeError"
    ELSE IF g_installed THEN "RuntimeError"
    ELSE IF cfg.targets.kind = "missing" THEN "ValueError"
    ELSE IF cfg.delay_ns.kind # "int" THEN "ValueError"
    ELSE IF PyLong_AsUnsignedLongLong(cfg.delay_ns.val).err THEN "OverflowError"
    ELSE IF ~g_patterns_module /\ fault = "import" THEN "ImportError"
    ELSE IF ~g_matches_any_func /\ fault = "getattr" THEN "AttributeError"
    ELSE IF ConfigFrequency(cfg.frequency) > 1 /\ fault = "dict" THEN "MemoryError"
    ELSE IF g_extra_index < 0 /\ fault = "index" THEN "IndexError"
    ELSE "ok"

InstallExit(cfg, fault) ==
    IF ~cfg.dict THEN "TypeError"
    ELSE IF g_installed THEN "RuntimeError"
    ELSE IF cfg.targets.kind # "list" THEN "ValueError"
    ELSE IF cfg.delay_ns.kind # "int" THEN "ValueError"
    ELSE IF PyLong_AsUnsignedLongLong(cfg.delay_ns.val).err THEN "OverflowError"
    ELSE IF ~g_patterns_module /\ fault = "import" THEN "ImportError"
    ELSE IF ~g_matches_any_func /\ fault = "getattr" THEN "AttributeError"
    ELSE IF ConfigFrequency(cfg.frequency) > 1 /\ fault = "dict" THEN "MemoryError"
    ELSE IF g_extra_index < 0 /\ fault = "index" THEN "IndexError"
    ELSE "ok"

\* The configuration has the required fields: a list of targets and an
\* integer delay_ns.
ValidConfig(cfg) ==
    cfg.dict /\ cfg.targets.kind = "list" /\ cfg.delay_ns.kind = "int"

\* The faults the environment can make this call run into.
Faults(cfg) ==
    {"none"} \cup {fault \in InstallFaults \ {"none"} : InstallExit(cfg, fault) # InstallExit(cfg, "none")}

py_install_setprofile(t, cfg, fault) ==
    LET exit == InstallExit(cfg, fault)
        r == ExitRank(exit)
        freq == ConfigFrequency(cfg.frequency)
    IN  /\ g_delay_ns' = IF r >= 5
                         THEN PyLong_AsUnsignedLongLong(cfg.delay_ns.val).val
                         ELSE g_delay_ns
        /\ g_frequency' = IF r >= 6 THEN freq ELSE g_frequency
        /\ g_start_ns' = IF r >= 6 THEN ConfigTime(cfg.start_ns) ELSE g_start_ns
        /\ g_end_ns' = IF r >= 6 THEN ConfigTime(cfg.end_ns) ELSE g_end_ns
        /\ g_target_patterns' = IF r >= 6
                                THEN [null |-> FALSE, list |-> cfg.targets.list]
                                ELSE g_target_patterns
        /\ g_patterns_module' = IF r >= 7 THEN TRUE ELSE g_patterns_module
        /\ g_matches_any_func' = IF r >= 8 THEN TRUE ELSE g_matches_any_func
        /\ g_call_counters' = IF r >= 8 /\ freq > 1
                              THEN (IF r = 8 THEN NullCounters ELSE EmptyDict)
                              ELSE g_call_counters
        /\ g_extra_index' = IF r >= 10 /\ g_extra_index < 0 THEN 0 ELSE g_extra_index
        /\ c_profilefunc' = IF r >= 10
                            THEN [c_profilefunc EXCEPT ![t] = TRUE]
                            ELSE c_profilefunc
        /\ g_installed' = IF r >= 10 THEN TRUE ELSE g_installed
        /\ qual' = IF r >= 10 THEN [s \in Sites |-> 0] ELSE qual
        /\ fired' = IF r >= 10 THEN [s \in Sites |-> 0] ELSE fired
        /\ last' = [NoOp EXCEPT !.op = "install", !.was = g_installed,
                                !.cfgok = ValidConfig(cfg), !.freq = cfg.frequency,
                                !.result = exit, !.err = (exit # "ok")]
        /\ UNCHANGED <<co_extra, decided, inflight, others>>

\* install(config) on thread t, under whatever the environment does to it.
Install(t, cfg) == \E fault \in Faults(cfg) : py_install_setprofile(t, cfg, fault)

\* --------------------------------------------------------------- uninstall
\* Mutant: the not-installed early return is missing.
py_uninstall_unguarded(t) ==
    /\ c_profilefunc' = [c_profilefunc EXCEPT ![t] = FALSE]
    /\ g_target_patterns' = NullTargets
    /\ g_call_counters' = NullCounters
    /\ g_installed' = FALSE
    /\ qual' = [s \in Sites |-> 0]
    /\ fired' = [s \in Sites |-> 0]
    /\ last' = [NoOp EXCEPT !.op = "uninstall", !.was = g_installed, !.result = "ok"]
    /\ UNCHANGED <<g_extra_index, g_patterns_module, g_matches_any_func,
                   g_delay_ns, g_frequency, g_start_ns, g_end_ns, co_extra,
                   decided, inflight, others>>

\* Mutant: uninstall forgets to reset g_installed.
py_uninstall_stays_installed(t) ==
    /\ IF ~g_installed
       THEN UNCHANGED <<engine, qual, fired>>
       ELSE /\ c_profilefunc' = [c_profilefunc EXCEPT ![t] = FALSE]
            /\ g_target_patterns' = NullTargets
            /\ g_call_counters' = NullCounters
            /\ qual' = [s \in Sites |-> 0]
            /\ fired' = [s \in Sites |-> 0]
            /\ UNCHANGED <<g_extra_index, g_patterns_module, g_matches_any_func,
                           g_delay_ns, g_frequency, g_start_ns, g_end_ns, co_extra,
                           g_installed>>
    /\ last' = [NoOp EXCEPT !.op = "uninstall", !.was = g_installed, !.result = "ok"]
    /\ UNCHANGED <<decided, inflight, others>>

\* Mutant: uninstall leaves the counter dict in place.
py_uninstall_keeps_counters(t) ==
    /\ IF ~g_installed
       THEN UNCHANGED <<engine, qual, fired>>
       ELSE /\ c_profilefunc' = [c_profilefunc EXCEPT ![t] = FALSE]
            /\ g_target_patterns' = NullTargets
            /\ g_installed' = FALSE
            /\ qual' = [s \in Sites |-> 0]
            /\ fired' = [s \in Sites |-> 0]
            /\ UNCHANGED <<g_extra_index, g_patterns_module, g_matches_any_func,
                           g_delay_ns, g_frequency, g_start_ns, g_end_ns, co_extra,
                           g_call_counters>>
    /\ last' = [NoOp EXCEPT !.op = "uninstall", !.was = g_installed, !.result = "ok"]
    /\ UNCHANGED <<decided, inflight, others>>

py_uninstall_setprofile(t) ==
    /\ IF ~g_installed
       THEN UNCHANGED <<engine, qual, fired>>
       ELSE /\ c_profilefunc' = [c_profilefunc EXCEPT ![t] = FALSE]
            /\ g_target_patterns' = NullTargets
            /\ g_call_counters' = NullCounters
            /\ g_installed' = FALSE
            /\ qual' = [s \in Sites |-> 0]
            /\ fired' = [s \in Sites |-> 0]
            /\ UNCHANGED <<g_extra_index, g_patterns_module, g_matches_any_func,
                           g_delay_ns, g_frequency, g_start_ns, g_end_ns, co_extra>>
    /\ last' = [NoOp EXCEPT !.op = "uninstall", !.was = g_installed, !.result = "ok"]
    /\ UNCHANGED <<decided, inflight, others>>

py_is_installed_setprofile(t) ==
    /\ last' = [NoOp EXCEPT !.op = "is_installed", !.was = g_installed,
                            !.result = IF g_installed THEN "True" ELSE "False"]
    /\ UNCHANGED <<engine, qual, decided, fired, inflight, others>>

\* ------------------------------------------------------------ the callback
\* The external predicate speed_bump._patterns.matches_any: a pure function
\* of the target list and the call site's names.  It answers with a bool or
\* raises (MatcherOutcomes); the truth test of a bool cannot fail.
matches_any(targets, s) == s \in targets

\* Mutant: a raising matcher leaves the error indicator set.
check_pattern_match_noclear(s, mout) ==
    IF ~g_matches_any_func \/ g_target_patterns.null
    THEN [ret |-> 0, invoked |-> FALSE, err |-> FALSE]
    ELSE IF mout = "raise"
    THEN [ret |-> 0, invoked |-> TRUE, err |-> TRUE]
    ELSE [ret |-> IF matches_any(g_target_patterns.list, s) THEN 1 ELSE 0,
          invoked |-> TRUE, err |-> FALSE]

\* check_pattern_match: ret is the int returned, invoked whether the matcher
\* was called, err whether the error indicator is left set.
check_pattern_match(s, mout) ==
    IF ~g_matches_any_func \/ g_target_patterns.null
    THEN [ret |-> 0, invoked |-> FALSE, err |-> FALSE]
    ELSE IF mout = "raise"
    THEN [ret |-> 0, invoked |-> TRUE, err |-> FALSE]
    ELSE [ret |-> IF matches_any(g_target_patterns.list, s) THEN 1 ELSE 0,
          invoked |-> TRUE, err |-> FALSE]

\* Mutant: the cache slot is never consulted.
CacheReadNever(s) == CACHE_UNKNOWN

\* The cache slot read at the top of the callback.
CacheRead(s) == IF g_extra_index >= 0 THEN co_extra[s] ELSE CACHE_UNKNOWN

\* The decision computed from the matcher's answer m, and what goes into the
\* cache slot for it.
Computed(m, mout) ==
    [stop |-> ~(m.ret > 0), is_match |-> (m.ret > 0), fresh |-> TRUE,
     fail |-> IF m.invoked /\ mout = "raise" THEN "matcher" ELSE "none",
     invoked |-> m.invoked, err |-> m.err,
     store |-> IF g_extra_index >= 0
               THEN (IF m.ret > 0 THEN CACHE_MATCH ELSE CACHE_NO_MATCH)
               ELSE CACHE_UNKNOWN]

\* The match decision of one call event: cached, or computed and stored.
\* stop = the callback returns before the time window is looked at.
Decide(s, loc, mout) ==
    LET cache_value == CacheRead(s)
    IN  IF cache_value = CACHE_NO_MATCH
        THEN [stop |-> TRUE, is_match |-> FALSE, fresh |-> FALSE, fail |-> "none",
              invoked |-> FALSE, err |-> FALSE, store |-> CACHE_UNKNOWN]
        ELSE IF cache_value = CACHE_MATCH
        THEN [stop |-> FALSE, is_match |-> TRUE, fresh |-> FALSE, fail |-> "none",
              invoked |-> FALSE, err |-> FALSE, store |-> CACHE_UNKNOWN]
        ELSE IF loc = "fail"
        THEN [stop |-> TRUE, is_match |-> FALSE, fresh |-> TRUE, fail |-> "locate",
              invoked |-> FALSE, err |-> FALSE, store |-> CACHE_UNKNOWN]
        ELSE Computed(check_pattern_match(s, mout), mout)

\* The time window test, on the CLOCK_REALTIME reading now_ns.
InWindow(now_ns) ==
    /\ ~(now_ns < g_start_ns)
    /\ ~(g_end_ns > 0 /\ now_ns >= g_end_ns)

\* Mutant: the frequency gate is entered whenever the dict exists.
CountingAnyFrequency == ~g_call_counters.null

\* The frequency gate is entered.
Counting == g_frequency > 1 /\ ~g_call_counters.null

\* Mutant: the site's entry is never found in the dict, the count restarts.
NextCountNotFound(s) == 1

\* count: the stored count plus one (1 for a site not in the dict).
NextCount(s) == g_call_counters.cnt[s] + 1

\* Mutant: the gate is tested on the count before the increment.
DueBeforeIncrement(count) == (count - 1) % g_frequency = 0

\* The call is the one the frequency gate lets through.
Due(count) == count % g_frequency = 0

\* _PyCode_SetExtra, when the callback has a decision to store: it stores, or
\* fails (no memory for the code object's extra slots) and stores nothing.
SetExtraOutcomes(d) == IF d.store # CACHE_UNKNOWN THEN {"ok", "fail"} ELSE {"none"}

\* The configuration a call event reads.
GateConfig == <<g_target_patterns, g_delay_ns, g_frequency, g_start_ns, g_end_ns>>

\* The callback from the decision d on: the cache store, the time window, the
\* frequency gate and the delay.  same = the configuration is the one the
\* decision was computed under.
Gate(what, s, d, now_ns, same) ==
    LET gated == ~d.stop /\ InWindow(now_ns)
        counted == gated /\ Counting
        delayed == gated /\ (Counting => Due(NextCount(s)))
    IN  /\ counted => g_call_counters.cnt[s] < MaxCalls
        /\ (gated /\ g_installed /\ g_frequency > 1) => qual[s] < MaxCalls
        /\ \E set \in SetExtraOutcomes(d) :
               /\ co_extra' = IF set = "ok"
                              THEN [co_extra EXCEPT ![s] = d.store]
                              ELSE co_extra
               /\ decided' = IF set = "ok" /\ decided[s] = "none"
                             THEN [decided EXCEPT ![s] =
                                       IF d.is_match THEN "match" ELSE "nomatch"]
                             ELSE decided
               /\ last' = [NoOp EXCEPT
                              !.op = "call", !.what = what, !.site = s,
                              !.was = g_installed,
                              !.result = "0", !.fresh = d.fresh,
                              !.resolved = (decided[s] # "none"),
                              !.fail = d.fail, !.matcher = d.invoked,
                              !.match = d.is_match, !.gated = gated,
                              !.delayed = delayed, !.err = d.err,
                              !.now = now_ns, !.sameconf = same,
                              !.stored = (set = "ok")]
        /\ g_call_counters' =
               IF counted
               THEN [g_call_counters EXCEPT !.cnt[s] = NextCount(s)]
               ELSE g_call_counters
        /\ qual' = IF gated /\ g_installed /\ g_frequency > 1
                   THEN [qual EXCEPT ![s] = @ + 1]
                   ELSE qual
        /\ fired' = IF delayed /\ g_installed /\ g_frequency > 1
                    THEN [fired EXCEPT ![s] = @ + 1]
                    ELSE fired
        /\ UNCHANGED <<g_extra_index, g_patterns_module, g_matches_any_func,
                       g_target_patterns, g_delay_ns, g_frequency, g_start_ns,
                       g_end_ns, g_installed, c_profilefunc>>

\* Mutant: the kind of the event is not looked at.
profile_callback_any_kind(t, what, s, loc, mout, now_ns) ==
    /\ c_profilefunc[t]
    /\ Gate(what, s, Decide(s, loc, mout), now_ns, TRUE)
    /\ UNCHANGED <<inflight, others>>

\* One profiling event handled without the interpreter lock changing hands.
\* An event of another kind returns before the frame is looked at.
profile_callback(t, what, s, loc, mout, now_ns) ==
    /\ c_profilefunc[t]
    /\ IF what # "PyTrace_CALL"
       THEN /\ last' = [NoOp EXCEPT !.op = "event", !.what = what,
                                    !.was = g_installed, !.result = "0"]
            /\ UNCHANGED <<engine, qual, decided, fired>>
       ELSE Gate(what, s, Decide(s, loc, mout), now_ns, TRUE)
    /\ UNCHANGED <<inflight, others>>

\* The matcher is Python code: while it runs the interpreter lock can pass to
\* another thread.  The call event of thread t enters the matcher, with the
\* target list as it is now.
CallBegin(t, s, mout) ==
    /\ c_profilefunc[t] /\ inflight[t].pc = "idle"
    /\ CacheRead(s) = CACHE_UNKNOWN
    /\ check_pattern_match(s, mout).invoked
    /\ inflight' = [inflight EXCEPT ![t] =
                       [pc |-> "matching", site |-> s, mout |-> mout,
                        m |-> check_pattern_match(s, mout), conf |-> GateConfig]]
    /\ UNCHANGED <<engine, hist, others>>

\* The matcher has answered: thread t goes on from the cache store.
CallEnd(t, now_ns) ==
    /\ inflight[t].pc = "matching"
    /\ Gate("PyTrace_CALL", inflight[t].site,
            Computed(inflight[t].m, inflight[t].mout), now_ns,
            inflight[t].conf = GateConfig)
    /\ inflight' = [inflight EXCEPT ![t] = Idle]
    /\ UNCHANGED others

\* -------------------------------------------------------------- spin delay
\* spin_delay_ns, entered: the first clock read and the end of the wait.
spin_delay_ns(delay_ns) ==
    [state |-> "loop", delay_ns |-> delay_ns, start |-> mono,
     end_ns |-> (mono + delay_ns) % U64Mod, now |-> mono]

\* Mutant: the loop leaves only once the clock is past end_ns.
SpinExitPast(now, end_ns) == now > end_ns

\* Mutant: the loop leaves one nanosecond early.
SpinExitEarly(now, end_ns) == now + 1 >= end_ns

\* The loop's exit test on one clock read.
SpinExit(now, end_ns) == now >= end_ns

\* py_spin_delay_ns(nanoseconds): any unsigned 64-bit value.
py_spin_delay_ns(delay) ==
    /\ spin.state # "loop"
    /\ spin' = spin_delay_ns(delay)
    /\ UNCHANGED <<engine, hist, inflight, mono, core, worker>>

\* One turn of the loop: read the clock, leave or pause.
SpinLoop ==
    /\ spin.state = "loop"
    /\ spin' = [spin EXCEPT !.now = mono,
                            !.state = IF SpinExit(mono, spin.end_ns)
                                      THEN "returned" ELSE "loop"]
    /\ UNCHANGED <<engine, hist, inflight, mono, core, worker>>

\* CLOCK_MONOTONIC advances.
Tick ==
    /\ mono < MaxMono
    /\ mono' = mono + 1
    /\ UNCHANGED <<engine, hist, inflight, spin, core, worker>>

\* CLOCK_MONOTONIC keeps advancing, as far as a uint64_t reading goes.
Advance ==
    /\ mono < U64Max
    /\ mono' = mono + 1
    /\ UNCHANGED <<engine, hist, inflight, spin, core, worker>>

\* ------------------------------------------------------------- calibration
\* calibrate_clock, with the clock reading start before and end_ns after the
\* measured reads: what it leaves in g_clock_overhead_ns and g_calibrated.
calibrate_clock(start, end_ns) ==
    [g_clock_overhead_ns |-> ((end_ns - start) % U64Mod) \div ITERS,
     g_calibrated |-> TRUE]

\* module_exec: the import of speed_bump._core runs calibrate_clock; the
\* measured reads take elapsed nanoseconds.  The module is imported once.
module_exec(elapsed) ==
    /\ ~core_loaded
    /\ mono + elapsed <= MaxMono
    /\ mono' = mono + elapsed
    /\ g_clock_overhead_ns' = calibrate_clock(mono, mono + elapsed).g_clock_overhead_ns
    /\ g_calibrated' = calibrate_clock(mono, mono + elapsed).g_calibrated
    /\ core_loaded' = TRUE
    /\ UNCHANGED <<engine, hist, inflight, spin, got, worker>>

py_get_clock_overhead_ns ==
    /\ core_loaded
    /\ got' = [op |-> "get_clock_overhead_ns", val |-> g_clock_overhead_ns]
    /\ UNCHANGED <<engine, hist, inflight, clock, g_clock_overhead_ns,
                   g_calibrated, core_loaded, worker>>

\* Mutant: the overhead of one clock read instead of two.
MinDelayOneRead == g_clock_overhead_ns

\* 2 * g_clock_overhead_ns, in uint64_t.
MinDelay == (2 * g_clock_overhead_ns) % U64Mod

py_get_min_delay_ns ==
    /\ core_loaded
    /\ got' = [op |-> "get_min_delay_ns", val |-> MinDelay]
    /\ UNCHANGED <<engine, hist, inflight, clock, g_clock_overhead_ns,
                   g_calibrated, core_loaded, worker>>

py_is_calibrated ==
    /\ core_loaded
    /\ got' = [op |-> "is_calibrated", val |-> IF g_calibrated THEN 1 ELSE 0]
    /\ UNCHANGED <<engine, hist, inflight, clock, g_clock_overhead_ns,
                   g_calibrated, core_loaded, worker>>

\* --------------------------------------------------------- the thread test
\* worker, thread t: it reaches the start barrier.
WorkerArrive(t) ==
    /\ worker[t].pc = "created"
    /\ worker' = [worker EXCEPT ![t].pc = "barrier"]
    /\ UNCHANGED <<engine, hist, inflight, clock, core>>

\* pthread_barrier_wait returns in every thread once all have arrived.
BarrierRelease ==
    /\ \A t \in Threads : worker[t].pc = "barrier"
    /\ worker' = [t \in Threads |-> [worker[t] EXCEPT !.pc = "start"]]
    /\ UNCHANGED <<engine, hist, inflight, clock, core>>

\* clock_gettime(CLOCK_MONOTONIC, &t0)
WorkerStart(t) ==
    /\ worker[t].pc = "start"
    /\ worker' = [worker EXCEPT ![t].pc = "call", ![t].t0 = mono, ![t].i = 0]
    /\ UNCHANGED <<engine, hist, inflight, clock, core>>

\* for (i < N_ITERATIONS): spin_delay_ns(DELAY_NS) is entered.
WorkerCall(t) ==
    /\ worker[t].pc = "call" /\ worker[t].i < N_ITERATIONS
    /\ worker' = [worker EXCEPT ![t].pc = "loop",
                                ![t].end_ns = spin_delay_ns(DELAY_NS).end_ns]
    /\ UNCHANGED <<engine, hist, inflight, clock, core>>

\* One turn of the thread's spin loop; on exit, i++.
WorkerLoop(t) ==
    /\ worker[t].pc = "loop"
    /\ worker' = IF SpinExit(mono, worker[t].end_ns)
                 THEN [worker EXCEPT ![t].pc = "call", ![t].i = @ + 1]
                 ELSE worker
    /\ UNCHANGED <<engine, hist, inflight, clock, core>>

\* clock_gettime(&t1); results[id].total_delay = t1 - t0
WorkerFinish(t) ==
    /\ worker[t].pc = "call" /\ worker[t].i = N_ITERATIONS
    /\ worker' = [worker EXCEPT ![t].pc = "done", ![t].t1 = mono,
                                ![t].total_delay = (mono - worker[t].t0) % U64Mod]
    /\ UNCHANGED <<engine, hist, inflight, clock, core>>

\* ---------------------------------------------------------- specifications
Next ==
    \/ \E t \in Threads, cfg \in Configs : Install(t, cfg)
    \/ \E t \in Threads : py_uninstall_setprofile(t)
    \/ \E t \in Threads : py_is_installed_setprofile(t)
    \/ \E t \in Threads, e \in Events :
           profile_callback(t, e.what, e.site, e.loc, e.mout, e.now)

Spec == Init /\ [][Next]_vars

SpinNext ==
    \/ \E delay \in 0 .. U64Max : py_spin_delay_ns(delay)
    \/ SpinLoop
    \/ Tick

SpinSpec == Init /\ [][SpinNext]_vars

\* The controller with the lock changing hands inside the matcher: a thread
\* inside the callback does nothing else until the callback has returned.
ConcConfigs ==
    {Config({"f"}, IntF(2), Missing, Missing),
     [Config({"g"}, Missing, Missing, IntF(3)) EXCEPT !.delay_ns = IntF(3)]}

Running(t) == inflight[t].pc = "idle"

ConcNext ==
    \/ \E t \in Threads, cfg \in ConcConfigs :
           Running(t) /\ py_install_setprofile(t, cfg, "none")
    \/ \E t \in Threads : Running(t) /\ py_uninstall_setprofile(t)
    \/ \E t \in Threads, e \in Events :
           /\ Running(t)
           /\ ~(e.what = "PyTrace_CALL" /\ e.loc = "ok"
                  /\ CacheRead(e.site) = CACHE_UNKNOWN
                  /\ check_pattern_match(e.site, e.mout).invoked)
           /\ profile_callback(t, e.what, e.site, e.loc, e.mout, e.now)
    \/ \E t \in Threads, s \in Sites, mout \in MatcherOutcomes : CallBegin(t, s, mout)
    \/ \E t \in Threads, now_ns \in NowVals : CallEnd(t, now_ns)

ConcSpec == Init /\ [][ConcNext]_vars

\* A spin delay under way while the clock advances and another thread
\* installs and uninstalls.  The spinning thread keeps running and the clock
\* keeps advancing: weak fairness on the loop and on the clock.
LiveNext ==
    \/ \E delay \in 0 .. U64Max : py_spin_delay_ns(delay)
    \/ SpinLoop
    \/ Advance
    \/ py_install_setprofile("T2", BaseConfig, "none")
    \/ py_uninstall_setprofile("T2")

LiveSpec == Init /\ [][LiveNext]_vars /\ WF_vars(SpinLoop) /\ WF_vars(Advance)

\* speed_bump._core from its import on: the getters and spin_delay_ns.
CoreNext ==
    \/ \E elapsed \in 0 .. MaxMono : module_exec(elapsed)
    \/ py_get_clock_overhead_ns
    \/ py_get_min_delay_ns
    \/ py_is_calibrated
    \/ \E delay \in {0, 1, DELAY_NS} : core_loaded /\ py_spin_delay_ns(delay)
    \/ SpinLoop
    \/ Tick

CoreSpec == Init /\ [][CoreNext]_vars

\* The thread test: the workers and the clock.
TsanNext ==
    \/ \E t \in Threads : WorkerArrive(t)
    \/ BarrierRelease
    \/ \E t \in Threads : WorkerStart(t)
    \/ \E t \in Threads : WorkerCall(t)
    \/ \E t \in Threads : WorkerLoop(t)
    \/ \E t \in Threads : WorkerFinish(t)
    \/ Tick

TsanSpec == Init /\ [][TsanNext]_vars

\* ------------------------------------------------------------------ claims
\* The time window as the specification words it: closed before start_ns,
\* and from end_ns on whenever end_ns is not 0.
WindowClosed(now_ns) ==
    \/ now_ns < g_start_ns
    \/ g_end_ns # 0 /\ now_ns >= g_end_ns

\* C1 (as claimed): once uninstall has returned, a call event on any thread
\* produces no delay: a call event handled while not installed never delays.
C1_NoDelayAfterUninstall ==
    (last.op = "call" /\ ~last.was) => ~last.delayed

C3_ClosedWindowNeverDelays ==
    (last.op = "call" /\ last.was /\ WindowClosed(last.now)) => ~last.delayed

C5_CacheClearedByInstall ==
    (\/ last.op = "uninstall" /\ last.was
     \/ last.op = "install" /\ last.result = "ok")
        => \A s \in Sites : co_extra[s] = CACHE_UNKNOWN

\* C6: install while installed is rejected with an error and leaves the whole
\* engine state (installed, GateConfig, target set, counters, hooks) as it was.
C6_DoubleInstallRejected ==
    [][(g_installed /\ last'.op = "install")
        => (last'.err /\ last'.result \in {"RuntimeError", "TypeError"}
            /\ UNCHANGED engine)]_vars

\* C6 witness: a valid configuration rejected as already installed.
C6_Witness ==
    /\ g_installed /\ last.op = "install" /\ last.was /\ last.cfgok
    /\ last.result = "RuntimeError"

\* C7: uninstall while not installed returns without error and leaves the
\* whole engine state, installed = false included, as it was.
C7_UninstallNoop ==
    [][(~g_installed /\ last'.op = "uninstall")
        => (last'.result = "ok" /\ ~last'.err /\ UNCHANGED engine)]_vars

\* C7 witness: an uninstall that found nothing installed while a target list
\* or a hook was still around to be touched.
C7_Witness ==
    /\ last.op = "uninstall" /\ ~last.was /\ ~g_installed
    /\ (~g_target_patterns.null \/ \E t \in Threads : c_profilefunc[t])

\* C8: an install, issued while not installed, whose configuration lacks a
\* list of targets or an integer delay_ns reports an error, attaches no hook
\* and leaves installed false.
C8_InvalidConfigRejected ==
    [][(~g_installed /\ last'.op = "install" /\ ~last'.cfgok)
        => (last'.err /\ last'.result \in {"ValueError", "TypeError"}
            /\ ~g_installed' /\ UNCHANGED c_profilefunc)]_vars

\* C8 witness: a validation error with nothing installed.
C8_Witness ==
    /\ last.op = "install" /\ ~last.cfgok /\ last.result = "ValueError"
    /\ ~g_installed /\ \A t \in Threads : ~c_profilefunc[t]

\* C9 (as claimed): spin_delay_ns returns only after at least delay_ns of
\* monotonic time since its first clock read.
C9_SpinAtLeast ==
    spin.state = "returned" => spin.now - spin.start >= spin.delay_ns

\* C10: a collaborator failure while deciding an Unknown site makes the
\* event a non-match: no delay, return value 0, no error left set.
C10_CollaboratorFailureIsNoMatch ==
    (last.op = "call" /\ last.fail # "none")
        => (last.fresh /\ ~last.match /\ ~last.gated /\ ~last.delayed
            /\ ~last.err /\ last.result = "0")

\* C10 witness: the matcher raised on a configured target, in an open window
\* with no frequency gate.
C10_Witness ==
    /\ last.op = "call" /\ last.was /\ last.fail = "matcher"
    /\ last.site \in g_target_patterns.list
    /\ g_frequency = 1 /\ ~WindowClosed(last.now)

C12_OneConfiguration ==
    (last.op = "call" /\ last.was /\ last.matcher /\ last.match)
        => (last.sameconf \/ matches_any(g_target_patterns.list, last.site))

\* C13: spin_delay runs concurrently on several threads without touching
\* shared mutable state: a step of one thread's spin_delay changes that
\* thread's locals and nothing else; and a thread that has issued
\* N_ITERATIONS sequential spin_delay(DELAY_NS) calls observes a total
\* elapsed time of at least N_ITERATIONS * DELAY_NS.
C13_ConcurrentSpin ==
    [][/\ \A t \in Threads :
              (worker[t].pc \in {"call", "loop"} /\ worker'[t] # worker[t])
                  => /\ \A u \in Threads \ {t} : worker'[u] = worker[u]
                     /\ UNCHANGED <<engine, hist, inflight, clock, core>>
       /\ \A t \in Threads :
              worker'[t].pc = "done"
                  => worker'[t].total_delay >= N_ITERATIONS * DELAY_NS]_vars

\* C13 witness: both threads have finished their spins, and their loops
\* overlapped in time (each started before the other's last spin ended).
C13_Witness ==
    /\ \A t \in Threads : worker[t].pc = "done"
    /\ \A t, u \in Threads : worker[t].t0 < worker[u].t1

\* C14: the calibration state is written at module initialisation and never
\* afterwards: once the module is loaded g_calibrated is true and stays so,
\* g_clock_overhead_ns keeps its value, is_calibrated() answers true,
\* get_clock_overhead_ns() answers that one value and get_min_delay_ns()
\* answers twice that value.
C14_CalibratedOnce ==
    [][/\ core_loaded
          => /\ g_calibrated /\ g_calibrated'
             /\ g_clock_overhead_ns' = g_clock_overhead_ns
       /\ core_loaded' => g_calibrated'
       /\ got'.op = "is_calibrated" => got'.val = 1
       /\ got'.op = "get_clock_overhead_ns" => got'.val = g_clock_overhead_ns'
       /\ got'.op = "get_min_delay_ns" => got'.val = 2 * g_clock_overhead_ns']_vars

\* C14 witness: calibration measured a non-zero overhead, a spin delay has
\* run and returned since, and get_min_delay_ns() has just answered.
C14_Witness ==
    /\ core_loaded /\ g_clock_overhead_ns > 0
    /\ spin.state = "returned" /\ spin.delay_ns > 0
    /\ got.op = "get_min_delay_ns"

\* C15 (as claimed): a site's cached decision changes only from Unknown to
\* NoMatch or Match; once it is terminal no step overwrites it with another
\* value, whatever the interleaving of call events, install and uninstall.
C15_TerminalDecisionKept ==
    [][\A s \in Sites :
           co_extra[s] # CACHE_UNKNOWN => co_extra'[s] = co_extra[s]]_vars

\* C16 (as claimed): whenever a delay is started for a site, the site's
\* cached decision is Match at that moment: the decision is in the cache
\* before the gates are looked at, and no delay starts for a site whose
\* cached decision is Unknown or NoMatch.
C16_DelayOnlyOnCachedMatch ==
    (last.op = "call" /\ last.delayed) => co_extra[last.site] = CACHE_MATCH

C19_FailedInstallChangesNothing ==
    [][(last'.op = "install" /\ last'.err)
        => UNCHANGED <<g_delay_ns, g_frequency, g_start_ns, g_end_ns,
                       g_target_patterns, g_call_counters>>]_vars

\* C20 (as claimed): after every successful install the effective frequency
\* is at least 1, and it is the configured frequency for every configured
\* integer of the declared unsigned range 1 .. 2^32 - 1 (here 1 .. IntMod - 1);
\* a missing frequency gives 1.
C20_EffectiveFrequency ==
    (last.op = "install" /\ last.result = "ok")
        => /\ g_frequency >= 1
           /\ (last.freq.kind = "int" /\ last.freq.val \in 1 .. IntMod - 1)
                  => g_frequency = last.freq.val
           /\ last.freq.kind = "missing" => g_frequency = 1

\* C21 (as claimed): the cache policy on collaborator failure is one and the
\* same for both collaborators: of two successive call events that each hit
\* a collaborator failure (name resolution or matcher) and whose cache store,
\* if any, did not itself fail, the later leaves its site's cache entry in
\* the state the earlier left its own.
C21_OneFailurePolicy ==
    [][(/\ last.op = "call" /\ last.fail # "none"
        /\ last'.op = "call" /\ last'.fail # "none"
        /\ (last.fail = "matcher" => last.stored)
        /\ (last'.fail = "matcher" => last'.stored))
        => co_extra'[last'.site] = co_extra[last.site]]_vars

\* C22: every spin_delay call eventually returns, for every duration, as long
\* as the monotonic clock keeps advancing; and nothing, a concurrent install
\* or uninstall included, cancels or extends a delay once started: while the
\* loop runs its end stays what it was, and it is left only on a clock
\* reading at or past that end.
C22_SpinReturns ==
    /\ (spin.state = "loop") ~> (spin.state = "returned")
    /\ [][spin.state = "loop"
            => /\ spin'.state \in {"loop", "returned"}
               /\ spin'.delay_ns = spin.delay_ns
               /\ spin'.start = spin.start
               /\ spin'.end_ns = spin.end_ns
               /\ spin'.state = "returned" => spin'.now >= spin.end_ns]_vars

\* C22 witness: the longest delay that does not wrap, started at clock 0,
\* has returned at its end, and an installation was uninstalled meanwhile.
C22_Witness ==
    /\ spin.state = "returned" /\ spin.start = 0 /\ spin.delay_ns = U64Max
    /\ spin.now = U64Max
    /\ last.op = "uninstall" /\ last.was

\* C23: in every state where installed is true the profile hook is attached,
\* the target list and the matcher function are present, the cache slot
\* index is allocated and, if frequency > 1, the counter dict exists: the
\* frequency gate is never passed over for lack of the dict while installed.
C23_InstalledIsComplete ==
    g_installed
        => /\ \E t \in Threads : c_profilefunc[t]
           /\ ~g_target_patterns.null
           /\ g_patterns_module /\ g_matches_any_func
           /\ g_extra_index >= 0
           /\ g_frequency > 1 => (~g_call_counters.null /\ Counting)

\* C23 witness: a later installation with frequency 3 (both threads carry
\* the hook) whose frequency gate has counted a site's 3rd call and let it
\* through.
C23_Witness ==
    /\ g_installed /\ g_frequency = 3
    /\ c_profilefunc = [t \in Threads |-> TRUE]
    /\ last.op = "call" /\ last.gated /\ last.delayed
    /\ g_call_counters.cnt[last.site] = 3

\* C24: only call-entry events are handled: a profiling event of any other
\* kind (return, C call, C return, C exception) has no effect at all: no
\* matcher call, no cache write, no counter change, no clock read, no delay;
\* the callback returns 0.
C24_OtherEventsIgnored ==
    [][(last'.op \in {"call", "event"} /\ last'.what # "PyTrace_CALL")
        => /\ UNCHANGED <<engine, qual, fired, decided, inflight, others>>
           /\ ~last'.matcher /\ ~last'.stored /\ ~last'.fresh
           /\ ~last'.gated /\ ~last'.delayed /\ ~last'.err
           /\ last'.now = 0 /\ last'.result = "0"]_vars

\* C24 witness: a C call event on a hooked thread of an installation in which
\* a call entry at site f would match and delay at once (open window, no
\* frequency gate, nothing cached yet).
C24_Witness ==
    /\ last.op = "event" /\ last.what = "PyTrace_C_CALL" /\ last.was
    /\ g_frequency = 1 /\ InWindow(1) /\ "f" \in g_target_patterns.list
    /\ co_extra["f"] = CACHE_UNKNOWN
====
